---- MODULE Spec2Model ----
(***************************************************************************)
(* Model of sop_main.py: the S&OP forecast-accuracy dashboard.             *)
(*                                                                         *)
(* A pandas/numpy float is a record [k, n, d]: k = "num" is the rational   *)
(* n/d in lowest terms (d > 0); k = "nan", "inf", "ninf" are the IEEE      *)
(* specials; k = "str" is a non-numeric cell of an object column.          *)
(* A DataFrame is a function from column names to equally long sequences.  *)
(***************************************************************************)
EXTENDS Integers, Sequences, FiniteSets, TLC

VARIABLES df, metrics, calls, error_bins, n_records, base_actual, noise_level, kpi, report

vars == <<df, metrics, calls, error_bins, n_records, base_actual, noise_level, kpi, report>>

(* ------------------------------ bounds -------------------------------- *)
\* rows of a dataset handed to calculate_metrics
MaxRows == 2
\* Actual ranges over 0..MaxActual, Forecast over -1..MaxForecast
MaxActual == 2
MaxForecast == 1
\* the sliders, scaled down: n_records in 1..MaxRecords (100..500 in the
\* code), base_actual in 0..MaxBase (300..700), noise_level in 0..MaxNoise (0..30)
MaxRecords == 3
MaxBase == 1
MaxNoise == 1

(* --------------------------- float algebra ---------------------------- *)
RECURSIVE Gcd(_, _)
Gcd(a, b) == IF b = 0 THEN a ELSE Gcd(b, a % b)

AbsInt(x) == IF x < 0 THEN -x ELSE x

NaN == [k |-> "nan", n |-> 0, d |-> 1]
Inf == [k |-> "inf", n |-> 0, d |-> 1]
NegInf == [k |-> "ninf", n |-> 0, d |-> 1]
Str == [k |-> "str", n |-> 0, d |-> 1]

\* the rational n/d (d # 0) in lowest terms with a positive denominator
Num(n, d) ==
    LET g == Gcd(AbsInt(n), AbsInt(d))
        s == IF d < 0 THEN -1 ELSE 1
    IN [k |-> "num", n |-> (s * n) \div g, d |-> (s * d) \div g]

Int2F(i) == [k |-> "num", n |-> i, d |-> 1]

IsNum(x) == x.k = "num"
IsNaN(x) == x.k = "nan"

\* IEEE negation
Neg(x) ==
    CASE x.k = "num" -> Num(-x.n, x.d)
      [] x.k = "inf" -> NegInf
      [] x.k = "ninf" -> Inf
      [] OTHER -> x

\* IEEE addition
Add(x, y) ==
    CASE IsNaN(x) \/ IsNaN(y) -> NaN
      [] IsNum(x) /\ IsNum(y) -> Num(x.n * y.d + y.n * x.d, x.d * y.d)
      [] IsNum(x) -> y
      [] IsNum(y) -> x
      [] x.k = y.k -> x
      [] OTHER -> NaN

Sub(x, y) == Add(x, Neg(y))

\* np.abs
Abs(x) ==
    CASE x.k = "num" -> Num(AbsInt(x.n), x.d)
      [] x.k = "ninf" -> Inf
      [] OTHER -> x

\* multiplication of a float by a finite non-zero rational p/q
Scale(x, p, q) ==
    CASE x.k = "num" -> Num(x.n * p, x.d * q)
      [] x.k = "nan" -> NaN
      [] (x.k = "inf") = ((p > 0) = (q > 0)) -> Inf
      [] OTHER -> NegInf

\* numpy true division: x/0 is +-inf, 0/0 is nan, no exception is raised
TrueDiv(x, y) ==
    CASE IsNaN(x) \/ IsNaN(y) -> NaN
      [] IsNum(x) /\ IsNum(y) ->
            IF y.n # 0 THEN Num(x.n * y.d, x.d * y.n)
            ELSE IF x.n > 0 THEN Inf
            ELSE IF x.n < 0 THEN NegInf
            ELSE NaN
      [] IsNum(y) -> IF y.n >= 0 THEN x ELSE Neg(x)
      [] IsNum(x) -> Int2F(0)
      [] OTHER -> NaN

\* IEEE ==: nan compares unequal to everything, itself included
FloatEq(x, y) == ~IsNaN(x) /\ ~IsNaN(y) /\ x = y

(* ------------------------------ Series -------------------------------- *)
\* Series.replace(a, b): every element equal to a becomes b
Replace(s, a, b) == [i \in DOMAIN s |-> IF FloatEq(s[i], a) THEN b ELSE s[i]]

RECURSIVE SumFrom(_, _)
SumFrom(s, i) ==
    IF i > Len(s) THEN Int2F(0)
    ELSE IF IsNaN(s[i]) THEN SumFrom(s, i + 1)
    ELSE Add(s[i], SumFrom(s, i + 1))

\* Series.sum(): skipna=True, min_count=0, so the empty sum is 0
SeriesSum(s) == SumFrom(s, 1)

\* Series.count(): the number of non-NaN elements
SeriesCount(s) == Cardinality({i \in DOMAIN s : ~IsNaN(s[i])})

\* Series.mean(): skipna=True; NaN when no element is left
SeriesMean(s) ==
    IF SeriesCount(s) = 0 THEN NaN ELSE Scale(SeriesSum(s), 1, SeriesCount(s))

\* a column holds a non-numeric cell (object dtype)
HasStr(s) == \E i \in DOMAIN s : s[i].k = "str"

(* ----------------------------- DataFrame ------------------------------ *)
\* df[name] = series
SetColumn(d, name, s) ==
    [c \in DOMAIN d \cup {name} |-> IF c = name THEN s ELSE d[c]]

NRows(d) == Len(d["Actual"])

Unbound == [unbound |-> TRUE]
Raised(e) == [raised |-> e]
MetricKeys == {"MAPE", "WMAPE", "BIAS", "Forecast_Accuracy"}
IsMapping(m) == DOMAIN m = MetricKeys

(* -------------------------- calculate_metrics ------------------------- *)
ErrorColumn(d) == [i \in 1..NRows(d) |-> Sub(d["Forecast"][i], d["Actual"][i])]

AbsoluteErrorColumn(d) == [i \in 1..NRows(d) |-> Abs(d["Error"][i])]

PercentageErrorColumn(d) ==
    Replace([i \in 1..NRows(d) |-> TrueDiv(d["Absolute_Error"][i], d["Actual"][i])],
            Inf, Int2F(0))

\* a zero Actual is first overwritten by 1 to keep the division defined
WithErrorsGuardZero(d) ==
    LET d0 == SetColumn(d, "Actual", Replace(d["Actual"], Int2F(0), Int2F(1)))
        d1 == SetColumn(d0, "Error", ErrorColumn(d0))
        d2 == SetColumn(d1, "Absolute_Error", AbsoluteErrorColumn(d1))
    IN SetColumn(d2, "Percentage_Error", PercentageErrorColumn(d2))

\* the frame after lines 24-26
WithErrors(d) ==
    LET d1 == SetColumn(d, "Error", ErrorColumn(d))
        d2 == SetColumn(d1, "Absolute_Error", AbsoluteErrorColumn(d1))
    IN SetColumn(d2, "Percentage_Error", PercentageErrorColumn(d2))

\* the mapping of lines 28-38, from the augmented frame
MetricsOf(d) ==
    LET mape == Scale(SeriesMean(d["Percentage_Error"]), 100, 1)
        wmape == Scale(TrueDiv(SeriesSum(d["Absolute_Error"]), SeriesSum(d["Actual"])), 100, 1)
        bias == SeriesMean(d["Error"])
        accuracy == Sub(Int2F(100), mape)
    IN [MAPE |-> mape, WMAPE |-> wmape, BIAS |-> bias, Forecast_Accuracy |-> accuracy]

\* a str cell makes the subtraction of line 24 raise TypeError before any
\* column is assigned
CalcRaises(d) == HasStr(d["Forecast"]) \/ HasStr(d["Actual"])

CalcFrame(d) == IF CalcRaises(d) THEN d ELSE WithErrors(d)

CalcResult(d) == IF CalcRaises(d) THEN Raised("TypeError") ELSE MetricsOf(WithErrors(d))

(* ------------------- pd.cut(df['Error'], bins=5) ---------------------- *)
NBins == 5

\* x < y on finite floats
Less(x, y) == x.n * y.d < y.n * x.d

Valid(s) == {i \in DOMAIN s : ~IsNaN(s[i])}

\* nanops.nanmin / nanops.nanmax over a series with a non-NaN element
NanMin(s) == CHOOSE x \in {s[i] : i \in Valid(s)} : \A j \in Valid(s) : ~Less(s[j], x)
NanMax(s) == CHOOSE x \in {s[i] : i \in Valid(s)} : \A j \in Valid(s) : ~Less(x, s[j])

\* np.linspace(start, stop, NBins + 1, endpoint=True), as a function on 0..NBins
Linspace(start, stop) ==
    [k \in 0..NBins |-> Add(start, Scale(Sub(stop, start), k, NBins))]

\* the end points are left as they are
WidenNone(m) == Int2F(0)

\* 0.001 * abs(m) if m != 0 else 0.001
Widen(m) == IF m.n # 0 THEN Scale(Abs(m), 1, 1000) ELSE Num(1, 1000)

\* the first edge is not lowered below the minimum
BinEdgesNoAdjust(mn, mx) ==
    IF mn = mx
    THEN Linspace(Sub(mn, Widen(mn)), Add(mx, Widen(mx)))
    ELSE Linspace(mn, mx)

\* the bin edges cut computes from the minimum and the maximum
BinEdges(mn, mx) ==
    IF mn = mx
    THEN Linspace(Sub(mn, Widen(mn)), Add(mx, Widen(mx)))
    ELSE LET b == Linspace(mn, mx)
             adj == Scale(Sub(mx, mn), 1, 1000)
         IN [b EXCEPT ![0] = Sub(b[0], adj)]

\* bins.searchsorted(x, side="left"): the number of edges strictly below x
SearchSorted(bins, x) == Cardinality({k \in DOMAIN bins : Less(bins[k], x)})

\* the category (1..NBins) of x, or 0 for NA: NaN, or outside (bins[0], bins[NBins]]
BinId(bins, x) ==
    IF IsNaN(x) THEN 0
    ELSE LET id == SearchSorted(bins, x)
         IN IF id = 0 \/ id = NBins + 1 THEN 0 ELSE id

RECURSIVE Pow10(_)
Pow10(e) == IF e = 0 THEN 1 ELSE 10 * Pow10(e - 1)

\* floor of the rational n/d, d > 0
FloorDiv(n, d) == n \div d

\* np.around(x, digits): round half to even at the given decimal
Around(x, digits) ==
    LET p == Pow10(digits)
        t == x.n * p
        q == FloorDiv(t, x.d)
        r2 == 2 * (t - q * x.d)
        up == r2 > x.d \/ (r2 = x.d /\ q % 2 = 1)
    IN Num(IF up THEN q + 1 ELSE q, p)

\* the e >= 1 with 10^-e <= |x| < 10^-(e-1), for 0 < |x| < 1: -floor(log10(|x|))
RECURSIVE LeadExp(_, _)
LeadExp(x, e) == IF AbsInt(x.n) * Pow10(e) >= x.d THEN e ELSE LeadExp(x, e + 1)

\* _round_frac(x, precision)
RoundFrac(x, precision) ==
    IF x.n = 0 THEN x
    ELSE IF AbsInt(x.n) < x.d
         THEN Around(x, LeadExp(x, 1) - 1 + precision)
         ELSE Around(x, precision)

\* _infer_precision: the first precision in 3..19 at which the rounded edges
\* are distinct (cut's default precision is 3)
RECURSIVE InferPrecision(_, _)
InferPrecision(precision, bins) ==
    IF precision >= 20 THEN 3
    ELSE IF Cardinality({RoundFrac(bins[k], precision) : k \in DOMAIN bins})
                = Cardinality(DOMAIN bins)
         THEN precision
         ELSE InferPrecision(precision + 1, bins)

\* _format_labels: the interval (left, right] of every category, edges rounded
FormatLabels(bins) ==
    LET precision == InferPrecision(3, bins)
    IN [c \in 1..NBins |-> [left |-> RoundFrac(bins[c - 1], precision),
                            right |-> RoundFrac(bins[c], precision)]]

\* cut raises ValueError: "Cannot cut empty array"; all-NaN data gives NaN
\* edges and equal edges are refused ("Bin edges must be unique")
CutRaises(s) ==
    \/ Len(s) = 0
    \/ Valid(s) = {}
    \/ LET bins == BinEdges(NanMin(s), NanMax(s))
       IN Cardinality({bins[k] : k \in DOMAIN bins}) < NBins + 1

\* the count of every category, in category order (Categorical.value_counts)
CategoryCounts(s) ==
    LET bins == BinEdges(NanMin(s), NanMax(s))
    IN [c \in 1..NBins |-> Cardinality({i \in DOMAIN s : BinId(bins, s[i]) = c})]

\* the orders of the NBins categories
Perms == Permutations(1..NBins)

\* Series.value_counts(): sort=True orders the rows by descending count; the
\* order of equal counts is left to the sort of the build
ValueCountsOrders(counts) ==
    {p \in Perms : \A i \in 1..(NBins - 1) : counts[p[i]] >= counts[p[i + 1]]}

\* the categories of pd.cut(s, bins=5)
CategoryLabels(s) == FormatLabels(BinEdges(NanMin(s), NanMax(s)))

\* lines 153-155: the rows of value_counts in the order p, reset_index, the
\* two column names, Intervalo as the label of the interval
ErrorBinsRows(labels, counts, p) ==
    [Intervalo |-> [i \in 1..NBins |-> labels[p[i]]],
     Contagem |-> [i \in 1..NBins |-> counts[p[i]]]]

IsFrame(b) == DOMAIN b = {"Intervalo", "Contagem"}

(* --------------------------- generate_data ---------------------------- *)
Seed == 42

\* the state of the seeded generator after i draws; a linear congruential
\* stream stands for MT19937 and the normal deviates drawn from it
RECURSIVE RandState(_)
RandState(i) == IF i = 0 THEN Seed ELSE (RandState(i - 1) * 13 + 7) % 64

\* n dated rows: Actual from the first n draws after seeding, Forecast from
\* Actual and the next n draws, both cast to int
generate_data(n) ==
    [Date |-> [i \in 1..n |-> i],
     Actual |-> [i \in 1..n |-> Int2F(RandState(i) % (MaxActual + 1))],
     Forecast |-> [i \in 1..n |->
                    Int2F((RandState(i) % (MaxActual + 1)) + (RandState(n + i) % 3) - 1)]]

(* ------------------------- display and report ------------------------- *)
\* f"{value:.2f}": two decimals, round half to even; nan and inf print as such
Format2(x) == IF IsNum(x) THEN Around(x, 2) ELSE x

\* lines 146-149: the four st.metric values
KeyMetrics(m) ==
    [MAPE |-> Format2(m["MAPE"]), WMAPE |-> Format2(m["WMAPE"]),
     BIAS |-> Format2(m["BIAS"]), Acuracia |-> Format2(m["Forecast_Accuracy"])]

\* create_pdf(metrics, plot_path): a line per metric and the saved figure
create_pdf(m, plot) ==
    [lines |-> [key \in DOMAIN m |-> Format2(m[key])], image |-> plot]

(* ------------------------------ inputs -------------------------------- *)
ActualValues == {Int2F(a) : a \in 0..MaxActual}
ForecastValues == {Int2F(f) : f \in (-1)..MaxForecast}

Frame(a, f) == [Date |-> [i \in 1..Len(a) |-> i], Actual |-> a, Forecast |-> f]

Frames(A, F) ==
    UNION {{Frame(a, f) : a \in [1..m -> A], f \in [1..m -> F]} : m \in 0..MaxRows}

(* ------------------------------ actions ------------------------------- *)
Start ==
    /\ metrics = Unbound
    /\ calls = 0
    /\ error_bins = Unbound
    /\ n_records = 0
    /\ base_actual = 0
    /\ noise_level = 0
    /\ kpi = Unbound
    /\ report = Unbound

\* any dataset that conforms to the data model: integer (int64) cells,
\* Actual >= 0; the empty dataset is the frame generate_data(0) builds
Init == df \in Frames(ActualValues, ForecastValues) /\ Start

\* as Init, and a cell may be missing (NaN) or non-numeric
InitRaw == df \in Frames(ActualValues \cup {NaN, Str}, ForecastValues \cup {NaN, Str}) /\ Start

\* metrics = calculate_metrics(df); the frame is changed in place
CalculateMetrics ==
    /\ calls < 2
    /\ error_bins = Unbound
    /\ df' = CalcFrame(df)
    /\ metrics' = CalcResult(df)
    /\ calls' = calls + 1
    /\ UNCHANGED <<error_bins, n_records, base_actual, noise_level, kpi, report>>

\* lines 153-155, run after calculate_metrics returned
ErrorBins ==
    /\ calls >= 1
    /\ IsMapping(metrics)
    /\ error_bins = Unbound
    /\ IF CutRaises(df["Error"])
       THEN error_bins' = Raised("ValueError")
       ELSE LET labels == CategoryLabels(df["Error"])
                counts == CategoryCounts(df["Error"])
            IN \E p \in ValueCountsOrders(counts) :
                   error_bins' = ErrorBinsRows(labels, counts, p)
    /\ UNCHANGED <<df, metrics, calls, n_records, base_actual, noise_level, kpi, report>>

Next == CalculateMetrics \/ ErrorBins

Spec == Init /\ [][Next]_vars

(* ------------------------- the script, lines 114-171 ------------------ *)
\* what one run of the script computes before the histogram: the frame,
\* the metrics and the key metrics shown
Computed(n) ==
    LET d == generate_data(n)
    IN [df |-> CalcFrame(d), metrics |-> CalcResult(d), kpi |-> KeyMetrics(CalcResult(d))]

\* the histograms value_counts may give for the Error column s
Histograms(s) ==
    IF CutRaises(s) THEN {Raised("ValueError")}
    ELSE LET labels == CategoryLabels(s)
             counts == CategoryCounts(s)
         IN {ErrorBinsRows(labels, counts, p) : p \in ValueCountsOrders(counts)}

\* lines 166-171: the report of this run's metrics and figure, when the button
\* was pressed and the script came that far
Report(m, bins, pressed) ==
    IF pressed /\ IsFrame(bins) THEN create_pdf(m, bins) ELSE Unbound

\* as Run, with the metrics of the first run kept across the later runs
RunKeepMetrics(n, b, z, pressed) ==
    LET c == Computed(n)
    IN /\ n_records' = n
       /\ base_actual' = b
       /\ noise_level' = z
       /\ df' = c.df
       /\ metrics' = metrics
       /\ calls' = 1
       /\ kpi' = KeyMetrics(metrics)
       /\ error_bins' \in Histograms(c.df["Error"])
       /\ report' = Report(metrics, error_bins', pressed)

\* one run of the whole script with the widget values n, b, z and the button
Run(n, b, z, pressed) ==
    LET c == Computed(n)
    IN /\ n_records' = n
       /\ base_actual' = b
       /\ noise_level' = z
       /\ df' = c.df
       /\ metrics' = c.metrics
       /\ calls' = 1
       /\ kpi' = c.kpi
       /\ error_bins' \in Histograms(c.df["Error"])
       /\ report' = Report(c.metrics, error_bins', pressed)

\* the first run: every slider at its default, the button not pressed
InitUI ==
    LET c == Computed(1)
    IN /\ n_records = 1
       /\ base_actual = MaxBase \div 2
       /\ noise_level = MaxNoise \div 3
       /\ df = c.df
       /\ metrics = c.metrics
       /\ calls = 1
       /\ kpi = c.kpi
       /\ error_bins \in Histograms(c.df["Error"])
       /\ report = Unbound

MoveNRecords ==
    \E v \in (1..MaxRecords) \ {n_records} : Run(v, base_actual, noise_level, FALSE)

MoveBaseActual ==
    \E v \in (0..MaxBase) \ {base_actual} : Run(n_records, v, noise_level, FALSE)

MoveNoiseLevel ==
    \E v \in (0..MaxNoise) \ {noise_level} : Run(n_records, base_actual, v, FALSE)

PressButton == Run(n_records, base_actual, noise_level, TRUE)

NextUI == MoveNRecords \/ MoveBaseActual \/ MoveNoiseLevel \/ PressButton

SpecUI == InitUI /\ [][NextUI]_vars

SpecRaw == InitRaw /\ [][Next]_vars

(* ------------------------------ claims -------------------------------- *)
Returned == calls >= 1 /\ IsMapping(metrics)

IntActual(i) == df["Actual"][i].n
IntForecast(i) == df["Forecast"][i].n

RECURSIVE Total(_, _)
Total(f, n) == IF n = 0 THEN Int2F(0) ELSE Add(f[n], Total(f, n - 1))

\* the percentage error the data model defines for a row
RowPercentageError(a, f) == IF a = 0 THEN Int2F(0) ELSE Num(AbsInt(f - a), a)

SumActual == Total([i \in 1..NRows(df) |-> Int2F(IntActual(i))], NRows(df))

\* C1: whenever the dataset is empty or the Actual values sum to 0,
\* calculate_metrics ends in a raised error and returns no metrics mapping.
C1_EmptyOrZeroSumFails ==
    (calls >= 1 /\ (NRows(df) = 0 \/ SumActual = Int2F(0)))
        => DOMAIN metrics = {"raised"}

\* C2: every row whose Actual is 0 gets Percentage_Error exactly 0, whatever
\* its Forecast.
C2_ZeroActualPercentageErrorZero ==
    Returned =>
        \A i \in 1..NRows(df) :
            IntActual(i) = 0 => df["Percentage_Error"][i] = Int2F(0)

\* C3: on a non-empty dataset with sum(Actual) # 0 the returned MAPE is
\* 100 * sum of the rows' percentage errors / number of rows (every row in
\* the denominator), WMAPE is 100 * sum|Forecast - Actual| / sum(Actual) and
\* BIAS is sum(Forecast - Actual) / number of rows.
C3_MetricFormulas ==
    (calls >= 1 /\ NRows(df) > 0 /\ SumActual # Int2F(0)) =>
        LET n == NRows(df)
            pe == [i \in 1..n |-> RowPercentageError(IntActual(i), IntForecast(i))]
            ae == [i \in 1..n |-> Int2F(AbsInt(IntForecast(i) - IntActual(i)))]
            er == [i \in 1..n |-> Int2F(IntForecast(i) - IntActual(i))]
        IN /\ IsMapping(metrics)
           /\ metrics["MAPE"] = Scale(Total(pe, n), 100, n)
           /\ metrics["WMAPE"] = Scale(Total(ae, n), 100 * SumActual.d, SumActual.n)
           /\ metrics["BIAS"] = Scale(Total(er, n), 1, n)

\* C4: the rows of the error histogram are in ascending order of the
\* intervals' lower bounds.
C4_BinsAscending ==
    IsFrame(error_bins) =>
        \A i \in 1..(NBins - 1) :
            Less(error_bins["Intervalo"][i].left, error_bins["Intervalo"][i + 1].left)

Malformed(d) ==
    \E i \in 1..NRows(d) : ~IsNum(d["Actual"][i]) \/ ~IsNum(d["Forecast"][i])

\* C5: a dataset with a missing or non-numeric Actual or Forecast makes
\* calculate_metrics fail with a ValidationError; no metrics mapping is returned.
C5_MalformedRowFails ==
    (calls >= 1 /\ Malformed(df)) => metrics = Raised("ValidationError")

\* C6: the counts of the histogram's bins sum to the number of rows.
C6_CountsSumToRows ==
    IsFrame(error_bins) =>
        Total([i \in 1..NBins |-> Int2F(error_bins["Contagem"][i])], NBins)
            = Int2F(NRows(df))

C6_Witness ==
    /\ IsFrame(error_bins)
    /\ NRows(df) = 2
    /\ df["Error"][1] # df["Error"][2]

ConstantError == NRows(df) > 0 /\ \A i \in 1..NRows(df) : df["Error"][i] = df["Error"][1]

\* C7: when every row has the same Error, the histogram is built without
\* failing: 5 bins of non-zero width over a range widened around the value,
\* one bin holding every row and the other four holding none.
C7_ConstantErrorOneBin ==
    (Returned /\ error_bins # Unbound /\ ConstantError) =>
        /\ IsFrame(error_bins)
        /\ Len(error_bins["Intervalo"]) = 5 /\ Len(error_bins["Contagem"]) = 5
        /\ \A i \in 1..5 :
              /\ Less(error_bins["Intervalo"][i].left, error_bins["Intervalo"][i].right)
              /\ error_bins["Contagem"][i] \in {0, NRows(df)}
        /\ Cardinality({i \in 1..5 : error_bins["Contagem"][i] = NRows(df)}) = 1
        /\ \E i, j \in 1..5 :
              /\ Less(error_bins["Intervalo"][i].left, df["Error"][1])
              /\ Less(df["Error"][1], error_bins["Intervalo"][j].right)

C7_Witness ==
    /\ IsFrame(error_bins)
    /\ NRows(df) = 2
    /\ ConstantError

\* C8: every returned mapping has exactly the keys MAPE, WMAPE, BIAS and
\* Forecast_Accuracy, and Forecast_Accuracy + MAPE = 100.
C8_AccuracyPlusMapeIs100 ==
    Returned =>
        /\ DOMAIN metrics = {"MAPE", "WMAPE", "BIAS", "Forecast_Accuracy"}
        /\ FloatEq(Add(metrics["Forecast_Accuracy"], metrics["MAPE"]), Int2F(100))

\* C9: after any sequence of slider moves and button presses, the table, the
\* metrics, the key metrics shown, the histogram and the report all derive
\* from the one dataset generate_data gives for the current n_records.
C9_RenderFromCurrentDataset ==
    LET d == WithErrors(generate_data(n_records))
        m == MetricsOf(d)
    IN /\ df = d
       /\ metrics = m
       /\ kpi = KeyMetrics(m)
       /\ error_bins \in Histograms(d["Error"])
       /\ report # Unbound =>
             /\ report.lines = [key \in MetricKeys |-> Format2(m[key])]
             /\ report.image = error_bins

C9_Witness ==
    /\ report # Unbound
    /\ n_records = MaxRecords
    /\ base_actual # MaxBase \div 2

\* C10: calculate_metrics adds the fields Error, Absolute_Error and
\* Percentage_Error and changes nothing else of the dataset; a second call on
\* the augmented dataset returns the same metrics and leaves the same fields.
C10_OnlyDerivedFieldsAdded ==
    [][CalculateMetrics =>
        /\ DOMAIN df' = DOMAIN df \cup {"Error", "Absolute_Error", "Percentage_Error"}
        /\ \A c \in {"Date", "Actual", "Forecast"} : df'[c] = df[c]
        /\ calls = 1 => (metrics' = metrics /\ df' = df)]_vars

C10_Witness ==
    /\ calls = 2
    /\ NRows(df) = 2
    /\ \E i \in 1..2 : df["Actual"][i] = Int2F(0)
====
